---- MODULE Spec2Model ----
\* Pricing card components of Online_Store:
\*   PricingComponent        (template-cloning vanilla class, src/unnamed/part_000)
\*   PricingCard             (React component, src/PricingCard.js)
\*   PricingCardComponent    (string-template vanilla class, src/PricingCard.js)
\*
\* JavaScript objects are modelled by reference: `heap` maps an object identity to
\* the value of a plan record, and the store, the cards' closures and the arrays
\* handed to the caller hold identities.  A plan record is a function over Fields;
\* the value Absent marks a property the object does not own.
EXTENDS Naturals, Sequences, FiniteSets, TLC

VARIABLES
    heap,       \* object identity -> plan record value (the records alive in the page)
    plans,      \* PricingComponent.plans: sequence of object identities
    cards,      \* children of PricingComponent.container, in document order
    snap,       \* the array last returned by getPlans(), held by the caller
    callback,   \* PricingComponent.eventCallbacks.onPlanSelect (NoCallback when unset)
    passed,     \* history: the last function passed to onPlanSelect, and the ones displaced
    fired,      \* what the last trigger of a card's primary action sent out
    escaped,    \* the errors no handler caught: reported to the hosting page
    op,         \* the last call made on the PricingComponent (name, arguments, lookup result)
    rc,         \* PricingCard (React): isLoading and the position of handleButtonClick
    buttons,    \* PricingCardComponent: every button element render() has created
    options,    \* PricingCardComponent.options (buttonText, onButtonClick presence)
    cop         \* the last step taken by one of the two single-card components

vars == <<heap, plans, cards, snap, callback, passed, fired, escaped, op, rc, buttons,
          options, cop>>
storeVars == <<heap, plans, cards, snap, op>>
selVars == <<callback, passed, fired, escaped>>
cardVars == <<rc, buttons, options, cop>>

----------------------------------------------------------------------------
\* Bounds of the model.

MaxPlans == 2       \* longest batch passed to renderPlans
MaxCards == 1       \* longest batch rendered on the page whose user triggers cards
MaxTimers == 2      \* most revert timers pending on one card
MaxRenders == 2     \* most updateOptions calls on the PricingCardComponent

----------------------------------------------------------------------------
\* Plan records.

Absent == "<absent>"
Fields == {"id", "title", "price", "features", "buttonText"}
RequiredFields == {"title", "price", "features", "buttonText"}

Plan(id, title, price, features, buttonText) ==
    [f \in Fields |->
        CASE f = "id" -> id
          [] f = "title" -> title
          [] f = "price" -> price
          [] f = "features" -> features
          [] f = "buttonText" -> buttonText]

\* Records callers pass in: complete ones with an id, a complete one without id,
\* and one that lacks its title (and shares its id with a complete one).
Basic == Plan("basic", "Plan", "9", "f", "Buy")
Pro == Plan("pro", "Plan", "9", "f", "Buy")
Anonymous == Plan(Absent, "Plan", "9", "f", "Buy")
Untitled == Plan("basic", Absent, "9", "f", "Buy")

NoPartial == [f \in Fields |-> Absent]
Only(field, value) == [NoPartial EXCEPT ![field] = value]

\* The partial records callers pass to updatePlan.
Partials == { Only("price", "29"), Only("title", "Plan"), Only("id", "pro") }

\* The ids callers pass to updatePlan and removePlan ("ent" is never stored).
PlanIds == {"basic", "pro", "ent"}

\* The arrays of at most n records drawn from pool.
BatchesOf(pool, n) == UNION { [1..k -> pool] : k \in 0..n }

----------------------------------------------------------------------------
\* Heap of record objects.

\* The n smallest identities not in use.
RECURSIVE FreshIds(_, _)
FreshIds(used, n) ==
    IF n = 0 THEN <<>>
    ELSE LET o == CHOOSE k \in 1..(Cardinality(used) + 1) : k \notin used
         IN <<o>> \o FreshIds(used \cup {o}, n - 1)

Range(s) == { s[i] : i \in DOMAIN s }

\* Every reference to a record object, in a fixed order: the store, the cards'
\* listeners, the caller's array.
Refs(ps, cs, sn) == ps \o [i \in DOMAIN cs |-> cs[i].data] \o sn

\* The number an object gets when the live objects are numbered in the order of
\* their first reference.
Rank(refs, o) ==
    LET first == CHOOSE i \in DOMAIN refs : refs[i] = o /\ \A j \in 1..(i - 1) : refs[j] # o
    IN Cardinality({ refs[j] : j \in 1..first })

\* Garbage collection and renumbering: unreachable objects leave the heap and the
\* live ones are numbered 1..n by first reference.  Object identities carry no
\* meaning beyond equality, so two states that differ only in the numbering are
\* the same program state.
Normalize(h, ps, cs, sn) ==
    LET refs == Refs(ps, cs, sn)
        live == Range(refs)
        old(n) == CHOOSE o \in live : Rank(refs, o) = n
    IN [ heap |-> [n \in 1..Cardinality(live) |-> h[old(n)]],
         plans |-> [i \in DOMAIN ps |-> Rank(refs, ps[i])],
         cards |-> [i \in DOMAIN cs |-> [cs[i] EXCEPT !.data = Rank(refs, cs[i].data)]],
         snap |-> [i \in DOMAIN sn |-> Rank(refs, sn[i])] ]

\* The state of the page after an operation left it with heap h, store ps,
\* container children cs and caller array sn.
Becomes(h, ps, cs, sn) ==
    LET n == Normalize(h, ps, cs, sn)
    IN /\ heap' = n.heap
       /\ plans' = n.plans
       /\ cards' = n.cards
       /\ snap' = n.snap

\* The record values of a sequence of objects.
Values(h, s) == [i \in DOMAIN s |-> h[s[i]]]

----------------------------------------------------------------------------
\* PricingComponent: rendering.

\* planData.hasOwnProperty(field)
HasOwn(r, field) == r[field] # Absent

\* Truthiness of a property value, as `||` tests it.
Truthy(v) == v \notin {Absent, ""}

\* Faulty variant: requiredFields.some(...) in place of requiredFields.every(...).
validatePlanData_some(r) == \E field \in RequiredFields : HasOwn(r, field)

\* requiredFields.every(field => planData.hasOwnProperty(field))
validatePlanData(r) == \A field \in RequiredFields : HasOwn(r, field)

\* planData.id || `plan-${index}` (index counts from 0)
DataPlan(r, index) == IF Truthy(r["id"]) THEN r["id"] ELSE "plan-" \o ToString(index)

\* A card element: its data-plan and data-index attributes, the record object its
\* listeners close over, the record value its content was populated from, its
\* style.transform and the revert timers pending on it.
NewCard(h, o, index) ==
    [ plan |-> DataPlan(h[o], index), index |-> index, data |-> o, shown |-> h[o],
      scaled |-> FALSE, timers |-> 0 ]

\* renderCard(planData, index): the container's children afterwards.
renderCard(cs, h, o, index) ==
    IF ~validatePlanData(h[o]) THEN cs
    ELSE Append(cs, NewCard(h, o, index))

\* plansData.forEach((planData, index) => this.renderCard(planData, index)), from position i on.
RECURSIVE renderEach(_, _, _, _)
renderEach(cs, h, ps, i) ==
    IF i > Len(ps) THEN cs
    ELSE renderEach(renderCard(cs, h, ps[i], i - 1), h, ps, i + 1)

\* this.plans.findIndex(plan => plan.id === planId), counted from 1; 0 when not found.
findIndex(h, ps, planId) ==
    IF \E i \in DOMAIN ps : h[ps[i]]["id"] = planId
    THEN CHOOSE i \in DOMAIN ps :
            /\ h[ps[i]]["id"] = planId
            /\ \A j \in 1..(i - 1) : h[ps[j]]["id"] # planId
    ELSE 0

\* this.container.querySelector(`[data-plan="${planId}"]`): position of the first
\* card in document order with that attribute; 0 when there is none.
querySelector(cs, planId) ==
    IF \E i \in DOMAIN cs : cs[i].plan = planId
    THEN CHOOSE i \in DOMAIN cs :
            /\ cs[i].plan = planId
            /\ \A j \in 1..(i - 1) : cs[j].plan # planId
    ELSE 0

\* element.remove() on the child at position i (0: no element, nothing happens).
RemoveAt(s, i) ==
    IF i = 0 THEN s
    ELSE [k \in 1..(Len(s) - 1) |-> IF k < i THEN s[k] ELSE s[k + 1]]

\* Faulty variant: the record is replaced by the update payload, the spread of the
\* existing record forgotten.
Merge_payloadOnly(r, p) == p

\* { ...r, ...p }: the properties p owns override those of r.
Merge(r, p) == [f \in Fields |-> IF HasOwn(p, f) THEN p[f] ELSE r[f]]

\* The heap with the objects os added, holding the values vs.
Alloc(h, os, vs) ==
    [o \in (DOMAIN h) \cup Range(os) |->
        IF o \in DOMAIN h THEN h[o]
        ELSE vs[CHOOSE i \in DOMAIN os : os[i] = o]]

\* The last call on the component: its name, its arguments, and whether it got
\* past its guard (renderPlans) or found the id (updatePlan, removePlan).
Call(name, id, partial, batch, hit) ==
    [name |-> name, id |-> id, partial |-> partial, batch |-> batch, hit |-> hit]
NoCall == Call("none", "", NoPartial, <<>>, FALSE)

NoCallback == "<none>"
NothingFired == [registered |-> NoCallback, calls |-> <<>>, events |-> <<>>]

----------------------------------------------------------------------------
\* PricingComponent: the operations.

\* Faulty variant: the new records are added to the stored ones.
assignPlans_concat(old, plansData) == old \o plansData

\* this.plans = plansData
assignPlans(old, plansData) == plansData

\* renderPlans(plansData).  isArray is Array.isArray(plansData); batch holds the
\* values of the (fresh) record objects of the array.
RenderPlans(isArray, batch) ==
    /\ IF ~isArray \/ Len(batch) = 0
       THEN /\ UNCHANGED <<heap, plans, cards, snap>>
            /\ op' = Call(IF isArray THEN "renderPlans" ELSE "renderPlansNoArray",
                          "", NoPartial, batch, FALSE)
       ELSE LET os == FreshIds(DOMAIN heap, Len(batch))
                h1 == Alloc(heap, os, batch)
                cs == renderEach(<<>>, h1, os, 1)
            IN /\ Becomes(h1, assignPlans(plans, os), cs, snap)
               /\ op' = Call("renderPlans", "", NoPartial, batch, TRUE)
    /\ UNCHANGED <<selVars, cardVars>>

\* updatePlan(planId, updatedData)
UpdatePlan(planId, updatedData) ==
    /\ LET idx == findIndex(heap, plans, planId)
       IN IF idx = 0
          THEN /\ UNCHANGED <<heap, plans, cards, snap>>
               /\ op' = Call("updatePlan", planId, updatedData, <<>>, FALSE)
          ELSE LET os == FreshIds(DOMAIN heap, 1)
                   h1 == Alloc(heap, os, <<Merge(heap[plans[idx]], updatedData)>>)
                   ps == [plans EXCEPT ![idx] = os[1]]
                   cs1 == RemoveAt(cards, querySelector(cards, planId))
                   cs2 == renderCard(cs1, h1, os[1], idx - 1)
               IN /\ Becomes(h1, ps, cs2, snap)
                  /\ op' = Call("updatePlan", planId, updatedData, <<>>, TRUE)
    /\ UNCHANGED <<selVars, cardVars>>

\* removePlan(planId)
RemovePlan(planId) ==
    /\ LET idx == findIndex(heap, plans, planId)
       IN IF idx = 0
          THEN /\ UNCHANGED <<heap, plans, cards, snap>>
               /\ op' = Call("removePlan", planId, NoPartial, <<>>, FALSE)
          ELSE LET ps == RemoveAt(plans, idx)
                   cs == RemoveAt(cards, querySelector(cards, planId))
               IN /\ Becomes(heap, ps, cs, snap)
                  /\ op' = Call("removePlan", planId, NoPartial, <<>>, TRUE)
    /\ UNCHANGED <<selVars, cardVars>>

\* getPlans(): a new array holding the same record objects.
getPlans(ps) == ps

GetPlans ==
    /\ Becomes(heap, plans, cards, getPlans(plans))
    /\ op' = Call("getPlans", "", NoPartial, <<>>, TRUE)
    /\ UNCHANGED <<selVars, cardVars>>

\* clear()
Clear ==
    /\ Becomes(heap, <<>>, <<>>, snap)
    /\ op' = Call("clear", "", NoPartial, <<>>, TRUE)
    /\ UNCHANGED <<selVars, cardVars>>

\* destroy(): clear(), then the callback registration is dropped.
Destroy ==
    /\ Becomes(heap, <<>>, <<>>, snap)
    /\ callback' = NoCallback
    /\ passed' = [passed EXCEPT !.displaced = @ \cup ({callback} \ {NoCallback})]
    /\ op' = Call("destroy", "", NoPartial, <<>>, TRUE)
    /\ UNCHANGED <<fired, escaped, cardVars>>

----------------------------------------------------------------------------
\* PricingComponent: selection.

\* Values callers pass to onPlanSelect: two functions and something that is none.
\* The function g throws when it is called; f returns.
Functions == {"f", "g"}
Throws(cb) == cb = "g"
CallbackArgs == Functions \cup {"notAFunction"}

\* Faulty variant: the typeof test is missing.
register_unchecked(current, cb) == cb

\* if (typeof callback === 'function') this.eventCallbacks.onPlanSelect = callback
register(current, cb) == IF cb \in Functions THEN cb ELSE current

\* onPlanSelect(callback)
OnPlanSelect(cb) ==
    /\ callback' = register(callback, cb)
    /\ passed' = IF cb \in Functions
                 THEN [last |-> cb,
                       displaced |-> (passed.displaced \cup ({callback} \ {NoCallback})) \ {cb}]
                 ELSE passed
    /\ op' = Call("onPlanSelect", cb, NoPartial, <<>>, cb \in Functions)
    /\ UNCHANGED <<heap, plans, cards, snap, fired, escaped, cardVars>>

\* The events the listeners of addCardEventListeners answer: a click on the
\* button, and keydown on the button with Enter or Space.  Another key does nothing.
Events == {"click", "Enter", " ", "Tab"}
Activates(ev) == ev = "click" \/ ev = "Enter" \/ ev = " "

\* addClickAnimation(cardElement): the transform is set and a timer is started;
\* nothing clears a timer started before.
addClickAnimation(card) == [card EXCEPT !.scaled = TRUE, !.timers = @ + 1]

\* The arguments of this.eventCallbacks.onPlanSelect(planData.id || planData.title, planData)
CallbackArgsOf(cb, r, o) ==
    [fn |-> cb, id |-> IF Truthy(r["id"]) THEN r["id"] ELSE r["title"], data |-> o]

\* The detail of the 'planSelected' CustomEvent: planId: planData.id, planData
EventDetail(r, o) == [planId |-> r["id"], data |-> o]

\* What handleCardClick(planData, cardElement) sends out.  The callback is called
\* outside any try block: when it throws, the statements after the call, the
\* dispatch of 'planSelected' among them, are not reached.
handleCardClick(cb, r, o) ==
    [ registered |-> cb,
      calls |-> IF cb # NoCallback THEN <<CallbackArgsOf(cb, r, o)>> ELSE <<>>,
      events |-> IF cb # NoCallback /\ Throws(cb) THEN <<>> ELSE <<EventDetail(r, o)>> ]

\* The exception handleCardClick lets out of the listener that called it.
UncaughtCallback == "uncaught exception of the selection callback"
handleCardClick_throws(cb) == IF cb # NoCallback /\ Throws(cb) THEN {UncaughtCallback} ELSE {}

\* The user triggers the button of the card at position k.
Trigger(k, ev) ==
    /\ k \in DOMAIN cards
    /\ cards[k].timers < MaxTimers
    /\ IF Activates(ev)
       THEN /\ cards' = [cards EXCEPT ![k] = addClickAnimation(@)]
            /\ fired' = handleCardClick(callback, heap[cards[k].data], cards[k].data)
            /\ escaped' = escaped \cup handleCardClick_throws(callback)
            /\ op' = Call("trigger", cards[k].plan, NoPartial, <<>>, TRUE)
       ELSE /\ UNCHANGED <<cards, fired, escaped>>
            /\ op' = Call("keydown", cards[k].plan, NoPartial, <<>>, FALSE)
    /\ UNCHANGED <<heap, plans, snap, callback, passed, cardVars>>

\* The oldest revert timer of the card at position k fires (timers of one delay
\* fire in the order they were started): cardElement.style.transform = ''.
RevertTimer(k) ==
    /\ k \in DOMAIN cards
    /\ cards[k].timers > 0
    /\ cards' = [cards EXCEPT ![k].scaled = FALSE, ![k].timers = @ - 1]
    /\ op' = Call("timer", cards[k].plan, NoPartial, <<>>, TRUE)
    /\ UNCHANGED <<heap, plans, snap, selVars, cardVars>>

----------------------------------------------------------------------------
\* What a caller can do with the array getPlans() returned.

\* The property writes callers perform on a record of the returned array.
Writes == { <<"price", "99">> }

\* returned[i][field] = value
CallerWritesField(i, field, value) ==
    /\ i \in DOMAIN snap
    /\ heap[snap[i]][field] # value
    /\ heap' = [heap EXCEPT ![snap[i]][field] = value]
    /\ op' = Call("callerWrite", "", NoPartial, <<>>, TRUE)
    /\ UNCHANGED <<plans, cards, snap, selVars, cardVars>>

\* returned.pop()
CallerPops ==
    /\ Len(snap) > 0
    /\ Becomes(heap, plans, cards, SubSeq(snap, 1, Len(snap) - 1))
    /\ op' = Call("callerPop", "", NoPartial, <<>>, TRUE)
    /\ UNCHANGED <<selVars, cardVars>>

\* returned.reverse()
CallerReverses ==
    /\ Len(snap) > 1
    /\ Becomes(heap, plans, cards, [i \in DOMAIN snap |-> snap[Len(snap) + 1 - i]])
    /\ op' = Call("callerReverse", "", NoPartial, <<>>, TRUE)
    /\ UNCHANGED <<selVars, cardVars>>

\* returned.push(record), record a fresh object
CallerPushes(r) ==
    /\ Len(snap) < MaxPlans
    /\ LET os == FreshIds(DOMAIN heap, 1)
       IN Becomes(Alloc(heap, os, <<r>>), plans, cards, Append(snap, os[1]))
    /\ op' = Call("callerPush", "", NoPartial, <<>>, TRUE)
    /\ UNCHANGED <<selVars, cardVars>>

----------------------------------------------------------------------------
\* PricingCard (React) and PricingCardComponent (vanilla): one card each.
\* pc is the position of the click handler: "idle" (not running), "awaiting"
\* (suspended at `await onButtonClick()`), "timer" (the finally block has
\* started the reset timer, which has not fired).

Processing == "Processing..."
ButtonTexts == {"Get Started", "Contact Sales"}

\* The ways the promise of onButtonClick() settles.
Outcomes == {"fulfilled", "rejected"}

\* Where the handler is after its synchronous part: at the await when there is
\* an onButtonClick, else already past the finally block.
afterClick(hasAction) == IF hasAction THEN "awaiting" ELSE "timer"

\* PricingCard: the props the button is rendered from.
\* The rejection the async click handlers let out: try { await action() }
\* finally { setTimeout(...) } has no catch, so the promise of the handler is
\* rejected with the action's error and nothing handles it.
UnhandledRejection == "unhandled rejection of onButtonClick"
asyncClick_rejects(outcome) == IF outcome = "rejected" THEN {UnhandledRejection} ELSE {}

ReactButtonText == "Get Started"
ReactDisabled == rc.isLoading
ReactLabel == IF rc.isLoading THEN Processing ELSE ReactButtonText

\* PricingCard.handleButtonClick up to the await.  A disabled button gets no click.
ReactClick(hasAction) ==
    /\ ~ReactDisabled
    /\ rc' = [isLoading |-> TRUE, pc |-> afterClick(hasAction), settled |-> "none"]
    /\ cop' = [name |-> "reactClick", button |-> 0]
    /\ UNCHANGED <<storeVars, selVars, buttons, options>>

\* onButtonClick() settles: the finally block starts the timer.
ReactSettles(outcome) ==
    /\ rc.pc = "awaiting"
    /\ rc' = [rc EXCEPT !.pc = "timer", !.settled = outcome]
    /\ cop' = [name |-> "reactSettle", button |-> 0]
    /\ escaped' = escaped \cup asyncClick_rejects(outcome)
    /\ UNCHANGED <<storeVars, callback, passed, fired, buttons, options>>

\* The timer fires: setIsLoading(false).
ReactTimer ==
    /\ rc.pc = "timer"
    /\ rc' = [isLoading |-> FALSE, pc |-> "idle", settled |-> "none"]
    /\ cop' = [name |-> "reactTimer", button |-> 0]
    /\ UNCHANGED <<storeVars, selVars, buttons, options>>

\* PricingCardComponent: the options that matter to the button.
\* onButtonClick is "function" or "null"; the default is () => {}.
DefaultOptions == [buttonText |-> "Get Started", onButtonClick |-> "function"]

\* The objects callers pass to updateOptions: each option given or left out.
NewOptions == [buttonText : ButtonTexts \cup {Absent},
               onButtonClick : {"function", "null", Absent}]

\* { ...this.options, ...newOptions }
mergeOptions(opts, new) ==
    [k \in DOMAIN opts |-> IF new[k] # Absent THEN new[k] ELSE opts[k]]

\* if (this.options.onButtonClick)
HasAction(opts) == opts.onButtonClick = "function"

\* The <button class="btn"> render() writes into the container.  label is the
\* text it was rendered with; original is the handler's originalText; settled
\* is how the action of the running handler settled ("none": not yet, or no action).
NewButton(opts) ==
    [text |-> opts.buttonText, label |-> opts.buttonText, disabled |-> FALSE,
     pc |-> "idle", original |-> opts.buttonText, settled |-> "none"]

\* The button the container shows: the one the last render() created.
Shown == Len(buttons)

\* The synchronous part of the click listener.
pressButton(btn, hasAction) ==
    [btn EXCEPT !.original = btn.text, !.text = Processing, !.disabled = TRUE,
                !.pc = afterClick(hasAction), !.settled = "none"]

\* Faulty variant: the timer callback enables the button and forgets the label.
resetButton_noLabel(btn) ==
    [btn EXCEPT !.disabled = FALSE, !.pc = "idle", !.settled = "none"]

\* The timer callback: button.textContent = originalText; button.disabled = false.
resetButton(btn) ==
    [btn EXCEPT !.text = btn.original, !.disabled = FALSE, !.pc = "idle", !.settled = "none"]

\* A click on the shown button (a disabled button gets no click).
ButtonClick ==
    /\ ~buttons[Shown].disabled
    /\ buttons' = [buttons EXCEPT ![Shown] = pressButton(@, HasAction(options))]
    /\ cop' = [name |-> "click", button |-> Shown]
    /\ UNCHANGED <<storeVars, selVars, rc, options>>

\* this.options.onButtonClick() of the click on button b settles.
ButtonSettles(b, outcome) ==
    /\ b \in DOMAIN buttons
    /\ buttons[b].pc = "awaiting"
    /\ buttons' = [buttons EXCEPT ![b].pc = "timer", ![b].settled = outcome]
    /\ cop' = [name |-> "settle", button |-> b]
    /\ escaped' = escaped \cup asyncClick_rejects(outcome)
    /\ UNCHANGED <<storeVars, callback, passed, fired, rc, options>>

\* The reset timer of button b fires.
ButtonTimer(b) ==
    /\ b \in DOMAIN buttons
    /\ buttons[b].pc = "timer"
    /\ buttons' = [buttons EXCEPT ![b] = resetButton(@)]
    /\ cop' = [name |-> "timer", button |-> b]
    /\ UNCHANGED <<storeVars, selVars, rc, options>>

\* updateOptions(newOptions): merge, render() a new button, attachEvents() on it.
UpdateOptions(newOptions) ==
    /\ Len(buttons) <= MaxRenders
    /\ options' = mergeOptions(options, newOptions)
    /\ buttons' = Append(buttons, NewButton(options'))
    /\ cop' = [name |-> "updateOptions", button |-> Len(buttons) + 1]
    /\ UNCHANGED <<storeVars, selVars, rc>>

----------------------------------------------------------------------------
\* The state after `new PricingComponent(containerId)` on a page that has the
\* container and the template, and after the two single-card components mount.

InitStore ==
    /\ heap = <<>>
    /\ plans = <<>>
    /\ cards = <<>>
    /\ snap = <<>>
    /\ op = NoCall

InitSelect ==
    /\ escaped = {}
    /\ callback = NoCallback
    /\ passed = [last |-> NoCallback, displaced |-> {}]
    /\ fired = NothingFired

InitCards ==
    /\ rc = [isLoading |-> FALSE, pc |-> "idle", settled |-> "none"]
    /\ options = DefaultOptions
    /\ buttons = <<NewButton(DefaultOptions)>>
    /\ cop = [name |-> "none", button |-> 0]

Init == InitStore /\ InitSelect /\ InitCards

Next ==
    \/ \E batch \in BatchesOf({Basic, Pro, Untitled}, MaxPlans) : RenderPlans(TRUE, batch)
    \/ RenderPlans(FALSE, <<>>)
    \/ \E planId \in PlanIds : \E p \in Partials : UpdatePlan(planId, p)
    \/ \E planId \in PlanIds : RemovePlan(planId)
    \/ Clear

Spec == Init /\ [][Next]_vars

\* A caller that keeps and mutates what getPlans() returned.
NextSnapshot ==
    \/ \E batch \in BatchesOf({Basic, Anonymous}, MaxPlans) : RenderPlans(TRUE, batch)
    \/ GetPlans
    \/ \E i \in 1..MaxPlans : \E w \in Writes : CallerWritesField(i, w[1], w[2])
    \/ CallerPops
    \/ CallerReverses
    \/ CallerPushes(Pro)

SpecSnapshot == Init /\ [][NextSnapshot]_vars

\* A page whose user triggers the cards.
NextSelect ==
    \/ \E batch \in BatchesOf({Basic, Anonymous}, MaxCards) : RenderPlans(TRUE, batch)
    \/ \E cb \in CallbackArgs : OnPlanSelect(cb)
    \/ \E k \in 1..MaxCards : \E ev \in Events : Trigger(k, ev)
    \/ \E k \in 1..MaxCards : RevertTimer(k)
    \/ Destroy

SpecSelect == Init /\ [][NextSelect]_vars

\* The two single-card components, their users and their timers.
NextCards ==
    \/ \E hasAction \in BOOLEAN : ReactClick(hasAction)
    \/ \E outcome \in Outcomes : ReactSettles(outcome)
    \/ ReactTimer
    \/ ButtonClick
    \/ \E b \in 1..(MaxRenders + 1) : \E outcome \in Outcomes : ButtonSettles(b, outcome)
    \/ \E b \in 1..(MaxRenders + 1) : ButtonTimer(b)
    \/ \E newOptions \in NewOptions : UpdateOptions(newOptions)

\* A timer that has been started fires.
SpecCards ==
    /\ Init
    /\ [][NextCards]_vars
    /\ WF_vars(ReactTimer)
    /\ \A b \in 1..(MaxRenders + 1) : WF_vars(ButtonTimer(b))

\* A caller that addresses each rendered card by its data-plan attribute.
NextKeys ==
    \/ \E batch \in BatchesOf({Basic, Pro, Anonymous}, MaxPlans) : RenderPlans(TRUE, batch)
    \/ \E k \in DOMAIN cards : \E p \in Partials : UpdatePlan(cards[k].plan, p)
    \/ \E k \in DOMAIN cards : RemovePlan(cards[k].plan)

SpecKeys == Init /\ [][NextKeys]_vars

----------------------------------------------------------------------------
\* Vocabulary of the properties.

\* The record values the store holds, in store order.
StoredValues == Values(heap, plans)

\* The record object behind each card, in document order.
CardData(cs) == [i \in DOMAIN cs |-> cs[i].data]

\* A record that has title, price, features and buttonText.
Complete(r) ==
    /\ r["title"] # Absent
    /\ r["price"] # Absent
    /\ r["features"] # Absent
    /\ r["buttonText"] # Absent

\* p is the first position of the store whose record has this id.
IsFirstWithId(p, id) ==
    /\ p \in DOMAIN plans
    /\ heap[plans[p]]["id"] = id
    /\ \A q \in 1..(p - 1) : heap[plans[q]]["id"] # id

HoldsId(id) == \E p \in DOMAIN plans : heap[plans[p]]["id"] = id

\* Position of the card rendered from the record object o; 0 if it has none.
CardOf(o) ==
    IF \E k \in DOMAIN cards : cards[k].data = o
    THEN CHOOSE k \in DOMAIN cards : cards[k].data = o
    ELSE 0

----------------------------------------------------------------------------
\* C1: after any sequence of renderPlans, updatePlan, removePlan and clear, the
\* cards of the container correspond one-to-one to the records of the store, and
\* the cards are in the order of the records.
C1_CardsMirrorStore == CardData(cards) = plans

\* An updatePlan step, by what the store held before it.
C2_UpdateStep ==
    op'.name = "updatePlan" =>
        IF HoldsId(op'.id)
        THEN /\ op'.hit
             /\ Len(plans') = Len(plans)
             /\ \A p \in DOMAIN plans :
                   IF IsFirstWithId(p, op'.id)
                   THEN \A f \in Fields :
                           heap'[plans'[p]][f] =
                               IF op'.partial[f] # Absent THEN op'.partial[f]
                               ELSE heap[plans[p]][f]
                   ELSE heap'[plans'[p]] = heap[plans[p]]
        ELSE /\ ~op'.hit
             /\ UNCHANGED <<heap, plans, cards>>

\* C2: updatePlan(id, partial) on a store holding the id changes only the fields
\* named in partial, on the first record with that id, and leaves every other
\* record, the length and the order of the store unchanged; with an id no record
\* has it leaves the store and the cards unchanged.
C2_UpdateFrame == [][C2_UpdateStep]_vars

C2_Witness ==
    /\ op.name = "updatePlan"
    /\ op.hit
    /\ op.partial = Only("price", "29")
    /\ Len(plans) = 2
    /\ heap[plans[1]]["price"] # heap[plans[2]]["price"]

\* A removePlan step on a store that holds the id.
C3_RemoveStep ==
    op'.name = "removePlan" /\ HoldsId(op'.id) =>
        \E p \in DOMAIN plans :
            /\ IsFirstWithId(p, op'.id)
            /\ CardOf(plans[p]) # 0
            /\ LET after == Normalize(heap, RemoveAt(plans, p),
                                      RemoveAt(cards, CardOf(plans[p])), snap)
               IN /\ heap' = after.heap
                  /\ plans' = after.plans
                  /\ cards' = after.cards

\* A removePlan step right after a removePlan of the same id that found it.
C3_SecondRemoveStep ==
    op.name = "removePlan" /\ op.hit /\ op'.name = "removePlan" /\ op'.id = op.id =>
        UNCHANGED <<heap, plans, cards>>

\* C3: removePlan(id) on a store holding the id removes exactly one record, the
\* first with that id, and detaches exactly one card, the card of that record; a
\* second removePlan(id) right after it changes neither the store nor the cards.
C3_RemoveExactlyOne == [][C3_RemoveStep /\ C3_SecondRemoveStep]_vars

\* C4: for every sequence of valid records, the empty one included, and whatever
\* the store held, renderPlans(records) followed by getPlans() returns exactly
\* those records in the same order.
C4_AnyBatchReplaces ==
    op.name = "renderPlans" /\ (\A i \in DOMAIN op.batch : Complete(op.batch[i])) =>
        Values(heap, getPlans(plans)) = op.batch

\* After renderPlans of a non-empty sequence of valid records getPlans()
\* returns those records.
C4_NonEmptyBatchReplaces ==
    op.name = "renderPlans" /\ op.batch # <<>>
                            /\ (\A i \in DOMAIN op.batch : Complete(op.batch[i])) =>
        Values(heap, getPlans(plans)) = op.batch

\* A renderPlans step with the empty sequence.
C4_EmptyBatchStep ==
    op'.name = "renderPlans" /\ op'.batch = <<>> => UNCHANGED <<heap, plans, cards>>

\* C4, for non-empty sequences: for every non-empty sequence of valid records and
\* whatever the store held, renderPlans(records) followed by getPlans() returns
\* exactly those records in the same order; renderPlans of the empty sequence
\* leaves the stored sequence and the cards as they were.
C4_RenderThenGet == []C4_NonEmptyBatchReplaces /\ [][C4_EmptyBatchStep]_vars

C4_Witness ==
    /\ op.name = "renderPlans"
    /\ Len(op.batch) = 2
    /\ \A i \in DOMAIN op.batch : Complete(op.batch[i])
    /\ op.batch[1] # op.batch[2]
    /\ Len(plans) = 2

C6_CallerStep ==
    op'.name \in {"callerWrite", "callerPop", "callerReverse", "callerPush"} =>
        Values(heap', getPlans(plans')) = Values(heap, getPlans(plans))

\* C6: no mutation a caller performs on the value getPlans() returned (adding,
\* removing or reordering its elements, or changing fields of its records)
\* changes the stored plans: a later getPlans() returns the same records with
\* the same field values.
C6_SnapshotIsolated == [][C6_CallerStep]_vars

\* C7: every trigger of a card's primary action invokes the registered callback
\* exactly once, and the (id, record) passed to it equals the id and record the
\* 'planSelected' broadcast of that trigger carries, also for a record without id.
C7_CallbackMatchesBroadcast ==
    fired.events # <<>> /\ fired.registered # NoCallback =>
        /\ Len(fired.calls) = 1
        /\ Len(fired.events) = 1
        /\ fired.calls[1].fn = fired.registered
        /\ fired.calls[1].id = fired.events[1].planId
        /\ fired.calls[1].data = fired.events[1].data

\* A trigger step and an onPlanSelect step.
C8_Step ==
    /\ op'.name = "trigger" =>
          /\ Len(fired'.calls) <= 1
          /\ \A i \in DOMAIN fired'.calls :
                /\ fired'.calls[i].fn = passed.last
                /\ fired'.calls[i].fn \notin passed.displaced
    /\ op'.name = "onPlanSelect" =>
          IF op'.id \in {"f", "g"} THEN callback' = op'.id ELSE callback' = callback

\* C8: at most one selection callback is registered; the callback a trigger fires
\* is the last function passed to onPlanSelect, a displaced callback never fires
\* on later triggers, and onPlanSelect with a non-function leaves the
\* registration unchanged.
C8_SingleCallback == [][C8_Step]_vars

C8_Witness ==
    /\ op.name = "trigger"
    /\ Len(fired.calls) = 1
    /\ fired.calls[1].fn = "g"
    /\ passed.displaced = {"f"}

\* What the button shows in each position of the handler.
C9_State ==
    /\ rc.pc # "idle" => ReactDisabled /\ ReactLabel = "Processing..."
    /\ rc.pc = "idle" => ~ReactDisabled /\ ReactLabel = "Get Started"
    /\ \A b \in DOMAIN buttons :
          /\ buttons[b].pc # "idle" =>
                buttons[b].disabled /\ buttons[b].text = "Processing..."
          /\ buttons[b].pc = "idle" =>
                ~buttons[b].disabled /\ buttons[b].text = buttons[b].label

\* How the handler moves: idle to processing by a click only, out of the await
\* by settlement only and into the timer, out of the timer by its firing only.
C9_Step ==
    /\ cop'.name = "click" =>
          /\ buttons[cop'.button].pc = "idle"
          /\ buttons'[cop'.button].pc # "idle"
    /\ cop'.name = "reactClick" => rc.pc = "idle" /\ rc'.pc # "idle"
    /\ \A b \in DOMAIN buttons :
          /\ buttons[b].pc = "awaiting" /\ buttons'[b].pc # "awaiting" =>
                /\ cop' = [name |-> "settle", button |-> b]
                /\ buttons'[b].pc = "timer"
                /\ buttons'[b].settled \in {"fulfilled", "rejected"}
          /\ buttons[b].pc # "timer" /\ buttons'[b].pc = "timer" =>
                \/ cop' = [name |-> "settle", button |-> b]
                \/ /\ cop' = [name |-> "click", button |-> b]
                   /\ options.onButtonClick # "function"
          /\ buttons[b].pc = "timer" /\ buttons'[b].pc # "timer" =>
                cop' = [name |-> "timer", button |-> b] /\ buttons'[b].pc = "idle"
    /\ rc.pc = "awaiting" /\ rc'.pc # "awaiting" =>
          cop'.name = "reactSettle" /\ rc'.pc = "timer"
    /\ rc.pc = "timer" /\ rc'.pc # "timer" =>
          cop'.name = "reactTimer" /\ rc'.pc = "idle"

\* C9: in PricingCard and PricingCardComponent a trigger in the idle state moves
\* the card to processing (button disabled, label 'Processing...'); it stays in
\* processing at least until the onButtonClick action settles; the reset timer is
\* started only at settlement, fulfilled or rejected; when the timer fires the
\* card is idle again, the button enabled and its original label restored; so
\* every trigger whose action settles is eventually followed by idle.  For the
\* PricingCardComponent the card is the button element the click was on.
C9_ProcessingCycle ==
    /\ []C9_State
    /\ [][C9_Step]_vars
    /\ (rc.pc = "timer") ~> (rc.pc = "idle")
    /\ \A b \in 1..(MaxRenders + 1) :
          (b \in DOMAIN buttons /\ buttons[b].pc = "timer")
              ~> (b \in DOMAIN buttons /\ buttons[b].pc = "idle")

C9_Witness ==
    /\ cop.name = "timer"
    /\ buttons[cop.button].pc = "idle"
    /\ buttons[cop.button].text = "Contact Sales"
    /\ \E b \in DOMAIN buttons : buttons[b].pc = "timer" /\ buttons[b].settled = "rejected"
    /\ rc.pc = "timer"
    /\ rc.settled = "fulfilled"

\* C10: a trigger while the revert timer of an earlier trigger is pending
\* restarts that timer: at most one revert timer is pending per card, and the
\* transform is reverted only once the delay has elapsed since the latest
\* trigger (so while a timer is pending the card is still scaled down).
C10_OneRevertTimer ==
    \A k \in DOMAIN cards :
        /\ cards[k].timers <= 1
        /\ cards[k].timers > 0 => cards[k].scaled

\* What a card shows of its record: attributes and content, not the identity of
\* the record object behind it.
CardView(c) == [plan |-> c.plan, index |-> c.index, shown |-> c.shown]
CardViews(cs) == [i \in DOMAIN cs |-> CardView(cs[i])]

\* Each card's data-plan is the id of its record, or plan-<index> without one.
C11_State ==
    \A k \in DOMAIN cards :
        cards[k].plan = DataPlan(heap[cards[k].data], cards[k].index)

\* A call whose argument is the data-plan of the card at position k (the first
\* card with that attribute): removePlan detaches that card and no other;
\* updatePlan replaces it by a card of the merged record and keeps the others.
C11_Step ==
    \A k \in DOMAIN cards :
        (op'.id = cards[k].plan /\ k = querySelector(cards, op'.id)) =>
            /\ op'.name = "removePlan" =>
                   CardViews(cards') = CardViews(RemoveAt(cards, k))
            /\ op'.name = "updatePlan" =>
                   /\ Len(cards') = Len(cards)
                   /\ CardViews(SubSeq(cards', 1, Len(cards) - 1))
                          = CardViews(RemoveAt(cards, k))
                   /\ cards'[Len(cards)].plan = cards[k].plan
                   /\ cards'[Len(cards)].shown = Merge(cards[k].shown, op'.partial)

\* C11: every rendered card carries its record's resolved id (record.id, or
\* plan-<index> when the record has no id) in its data-plan attribute, and
\* updatePlan or removePlan called with the data-plan of a rendered card
\* replaces or detaches exactly that card and leaves every other card untouched.
C11_KeyAddressesCard ==
    /\ []C11_State
    /\ [][C11_Step]_vars

\* C12: apart from the constructor, no operation or event handler lets an error
\* escape to the hosting page: a trigger whose registered selection callback
\* throws, or whose asynchronous onButtonClick action rejects, completes (the
\* trigger still broadcasts planSelected) without propagating that error.
C12_NoErrorEscapes ==
    /\ escaped = {}
    /\ op.name = "trigger" => Len(fired.events) = 1

\* While a click on some button of the container is being processed (its action
\* unsettled or its reset timer pending), the button now shown is disabled.
C13_State ==
    (\E b \in DOMAIN buttons : buttons[b].pc # "idle") => buttons[Shown].disabled

\* onButtonClick is invoked only when no earlier click is still being processed.
C13_Step ==
    (cop'.name = "click" /\ HasAction(options)) =>
        \A b \in DOMAIN buttons : buttons[b].pc = "idle"

\* C13: for a PricingCardComponent, from a click until that click's reset timer
\* fires the button currently shown in the container is disabled, so
\* onButtonClick is never invoked again while an earlier invocation is
\* unsettled or its reset is pending, whatever the interleaving of clicks,
\* settlements, timers and updateOptions calls.
C13_ShownButtonDisabled ==
    /\ []C13_State
    /\ [][C13_Step]_vars

====
